---- MODULE Spec2Model ----
(***************************************************************************)
(* Model of the fragment assembly, the fragment sample resolver and the    *)
(* WebVTT box family of mp4ff (package mp4).                               *)
(*                                                                         *)
(* Boxes live on a heap (id -> object); a Fragment holds ids, as the Go    *)
(* struct holds pointers, so that a change made through f.Moof or f.Mdat   *)
(* is the change seen through f.Children.  Id 0 is the nil pointer.        *)
(***************************************************************************)
EXTENDS Integers, Sequences, FiniteSets, TLC

VARIABLES
    pc,      \* "start" before the fragment is constructed, "built" after;
             \* "parsed" for a fragment read from a file; "bytes", "decoded",
             \* "encoded" for a box through the codec; "children" while
             \* boxes are added to the containers
    f,       \* the Fragment: Prft, Moof, Mdat (ids, 0 = nil), Children (ids)
    heap,    \* id -> box object
    calls,   \* history: the operations called so far, with their arguments
    ret,     \* what the last operation returned
    inp,     \* box codec: the bytes of one box, header included
    box,     \* box codec: what decoding inp returned
    out,     \* box codec: the bytes written by encoding the decoded box
    w,       \* a WvttBox to which children are added
    v        \* a VttcBox to which children are added

vars == <<pc, f, heap, calls, ret, inp, box, out, w, v>>

codecVars == <<inp, box, out>>

fragmentVars == <<f, heap>>

\* ---------------------------------------------------------------- bounds

MaxOps == 3          \* operations called on one fragment after construction
MaxTruns == 2        \* truns of the first traf of a parsed fragment
MaxText == 2         \* bytes of the text a WebVTT text box carries
MaxAdds == 3         \* AddChild calls on the three containers together
MaxKids == 2         \* child boxes in the wvtt or vttc box that is decoded

\* ------------------------------------------------------------ arithmetic

\* TLC's integers are 32 bits wide; the program's are up to 64.  A wide number
\* <<a, b, c>> is the integer a + b * 2^32 + c * 2^64, exactly, with a and b
\* small (|a|, |b| < 2^31, which makes the triple of a number unique and its
\* sign the sign of its highest non-zero entry).
W(n) == <<n, 0, 0>>

WAdd(x, y) == <<x[1] + y[1], x[2] + y[2], x[3] + y[3]>>

WSub(x, y) == <<x[1] - y[1], x[2] - y[2], x[3] - y[3]>>

WSign(x) == IF x[3] # 0 THEN x[3] ELSE IF x[2] # 0 THEN x[2] ELSE x[1]

WLess(x, y) == WSign(WSub(y, x)) > 0

\* uint64(x) for -2^64 < x < 2^65: x modulo 2^64
U64(x) ==
    IF WSign(<<x[1], x[2], 0>>) >= 0 THEN <<x[1], x[2], 0>>
    ELSE <<x[1], x[2], 1>>

\* uint32(x): x modulo 2^32
U32(x) == IF x[1] >= 0 THEN <<x[1], 0, 0>> ELSE <<x[1], 1, 0>>

RECURSIVE Concat(_)
Concat(ss) == IF ss = <<>> THEN <<>> ELSE Head(ss) \o Concat(Tail(ss))

\* ----------------------------------------------------------------- boxes

\* A []byte: pad zero bytes (a wide number) followed by bytes, so that a
\* payload longer than 2^32 bytes stays small in the model.
NoData == [pad |-> W(0), bytes |-> <<>>]

DataLen(d) == WAdd(d.pad, W(Len(d.bytes)))

BoxObj(type) ==
    [Type |-> type, StartPos |-> W(0), SequenceNumber |-> 0, Trafs |-> <<>>,
     Data |-> NoData, PayloadAbsoluteOffset |-> W(0)]

CreateTfhd(trackID) ==
    [TrackID |-> trackID,
     HasBaseDataOffset |-> FALSE, BaseDataOffset |-> W(0),
     DefaultBaseIfMoof |-> FALSE,
     HasDefaultSampleDuration |-> FALSE, DefaultSampleDuration |-> 0,
     HasDefaultSampleSize |-> FALSE, DefaultSampleSize |-> 0,
     HasDefaultSampleFlags |-> FALSE, DefaultSampleFlags |-> 0]

TfdtBox == [BaseMediaDecodeTime |-> W(0)]

CreateTrun ==
    [HasDataOffset |-> FALSE, DataOffset |-> 0,
     HasSampleDuration |-> TRUE, HasSampleSize |-> TRUE,
     HasSampleFlags |-> TRUE,
     HasFirstSampleFlags |-> FALSE, FirstSampleFlags |-> 0,
     Samples |-> <<>>]

\* A traf after traf.AddChild(tfhd), (tfdt), (trun)...: Tfdt is <<>> when nil.
Traf(tfhd, tfdt, truns) == [Tfhd |-> tfhd, Tfdt |-> tfdt, Truns |-> truns]

NewTraf(trackID) == Traf(CreateTfhd(trackID), <<TfdtBox>>, <<CreateTrun>>)

\* moof.AddChild(mfhd), moof.AddChild(traf): Trafs in insertion order.
Moof_AddMfhd(moof, seqNumber) == [moof EXCEPT !.SequenceNumber = seqNumber]

Moof_AddTraf(moof, traf) == [moof EXCEPT !.Trafs = Append(@, traf)]

\* trun.AddSample(s), trun.SampleCount()
Trun_AddSample(trun, s) == [trun EXCEPT !.Samples = Append(@, s)]

Trun_SampleCount(trun) == Len(trun.Samples)

\* mdat.AddSampleData(data)
Mdat_AddSampleData(mdat, data) ==
    [mdat EXCEPT !.Data = [pad |-> @.pad, bytes |-> @.bytes \o data]]

\* The boxes a caller holds before it has a fragment: a prft, a moof with one
\* traf (track 2), an empty mdat and a box of another type.
CallerBoxes ==
    << BoxObj("prft"),
       Moof_AddTraf(Moof_AddMfhd(BoxObj("moof"), 9), NewTraf(2)),
       BoxObj("mdat"),
       BoxObj("styp") >>

\* -------------------------------------------------------------- Fragment

NewFragment == [Prft |-> 0, Moof |-> 0, Mdat |-> 0, Children |-> <<>>]

\* f.AddChild(b) that keeps one box per typed accessor: a second prft, moof
\* or mdat takes the accessor and is not appended.
Fragment_AddChild_OnePerType(fr, hp, b) ==
    LET t == hp[b].Type
        taken == \/ t = "prft" /\ fr.Prft # 0
                 \/ t = "moof" /\ fr.Moof # 0
                 \/ t = "mdat" /\ fr.Mdat # 0
    IN
    [Prft     |-> IF t = "prft" THEN b ELSE fr.Prft,
     Moof     |-> IF t = "moof" THEN b ELSE fr.Moof,
     Mdat     |-> IF t = "mdat" THEN b ELSE fr.Mdat,
     Children |-> IF taken THEN fr.Children ELSE Append(fr.Children, b)]

\* f.AddChild(b), b a pointer into hp
Fragment_AddChild(fr, hp, b) ==
    LET t == hp[b].Type IN
    [Prft     |-> IF t = "prft" THEN b ELSE fr.Prft,
     Moof     |-> IF t = "moof" THEN b ELSE fr.Moof,
     Mdat     |-> IF t = "mdat" THEN b ELSE fr.Mdat,
     Children |-> Append(fr.Children, b)]

RECURSIVE AddTrafs(_, _)
AddTrafs(moof, trackIDs) ==
    IF trackIDs = <<>> THEN moof
    ELSE AddTrafs(Moof_AddTraf(moof, NewTraf(Head(trackIDs))), Tail(trackIDs))

CreateMultiTrackFragment(hp, seqNumber, trackIDs) ==
    LET moof == AddTrafs(Moof_AddMfhd(BoxObj("moof"), seqNumber), trackIDs)
        hp1  == Append(hp, moof)
        f1   == Fragment_AddChild(NewFragment, hp1, Len(hp1))
        hp2  == Append(hp1, BoxObj("mdat"))
        f2   == Fragment_AddChild(f1, hp2, Len(hp2))
    IN  [f |-> f2, heap |-> hp2]

CreateFragment(hp, seqNumber, trackID) ==
    LET moof == Moof_AddTraf(Moof_AddMfhd(BoxObj("moof"), seqNumber),
                             NewTraf(trackID))
        hp1  == Append(hp, moof)
        f1   == Fragment_AddChild(NewFragment, hp1, Len(hp1))
        hp2  == Append(hp1, BoxObj("mdat"))
        f2   == Fragment_AddChild(f1, hp2, Len(hp2))
    IN  [f |-> f2, heap |-> hp2]

\* AddFullSample with the test of trun.SampleCount() == 0 left out: every
\* sample sets tfdt.
AddFullSample_SetsTfdtEachTime(fr, hp, s) ==
    IF fr.Moof = 0 \/ hp[fr.Moof].Trafs = <<>>
       \/ hp[fr.Moof].Trafs[1].Truns = <<>>
       \/ hp[fr.Moof].Trafs[1].Tfdt = <<>>
    THEN [heap |-> hp, panic |-> TRUE]
    ELSE
    LET hp1 == [hp EXCEPT ![fr.Moof].Trafs[1] =
                   [@ EXCEPT !.Tfdt = <<[BaseMediaDecodeTime |-> s.DecodeTime]>>,
                             !.Truns[1] = Trun_AddSample(@, s.Sample)]]
    IN  IF fr.Mdat = 0 THEN [heap |-> hp1, panic |-> TRUE]
        ELSE [heap |-> [hp1 EXCEPT ![fr.Mdat] = Mdat_AddSampleData(@, s.Data)],
              panic |-> FALSE]

\* AddFullSample: the heap after the call and whether the call panicked
\* (a nil pointer on the way f.Moof.Traf.Trun, a nil tfdt, a nil f.Mdat).
AddFullSample(fr, hp, s) ==
    IF fr.Moof = 0 \/ hp[fr.Moof].Trafs = <<>>
       \/ hp[fr.Moof].Trafs[1].Truns = <<>>
    THEN [heap |-> hp, panic |-> TRUE]
    ELSE
    LET traf  == hp[fr.Moof].Trafs[1]
        trun  == traf.Truns[1]
        first == Trun_SampleCount(trun) = 0
    IN  IF first /\ traf.Tfdt = <<>> THEN [heap |-> hp, panic |-> TRUE]
        ELSE
        LET tfdt == IF first
                    THEN <<[BaseMediaDecodeTime |-> s.DecodeTime]>>
                    ELSE traf.Tfdt
            hp1  == [hp EXCEPT ![fr.Moof].Trafs[1] =
                        [@ EXCEPT !.Tfdt = tfdt,
                                  !.Truns[1] = Trun_AddSample(trun, s.Sample)]]
        IN  IF fr.Mdat = 0 THEN [heap |-> hp1, panic |-> TRUE]
            ELSE [heap |-> [hp1 EXCEPT ![fr.Mdat] =
                               Mdat_AddSampleData(@, s.Data)],
                  panic |-> FALSE]

\* The value of the loop variable traf after
\*   for _, traf = range trafs { if traf.Tfhd.TrackID == trackID { break } }
\* as a sequence: <<>> is nil.
RECURSIVE RangeTraf(_, _, _)
RangeTraf(trafs, trackID, traf) ==
    IF trafs = <<>> THEN traf
    ELSE IF Head(trafs).Tfhd.TrackID = trackID THEN <<Head(trafs)>>
    ELSE RangeTraf(Tail(trafs), trackID, <<Head(trafs)>>)

\* AddFullSampleToTrack: "error", "nil" (no error) or "panic" (f.Moof is nil);
\* the fragment is left as it is.
AddFullSampleToTrack(fr, hp, s, trackID) ==
    IF fr.Moof = 0 THEN "panic"
    ELSE IF RangeTraf(hp[fr.Moof].Trafs, trackID, <<>>) = <<>> THEN "error"
    ELSE "nil"

TrackIDsOf(trafs) == { trafs[i].Tfhd.TrackID : i \in DOMAIN trafs }

\* The index of the first traf of trafs with this track ID (0: none).
FirstTrafWith(trafs, trackID) ==
    IF trackID \in TrackIDsOf(trafs)
    THEN CHOOSE i \in DOMAIN trafs :
            /\ trafs[i].Tfhd.TrackID = trackID
            /\ \A j \in 1..(i - 1) : trafs[j].Tfhd.TrackID # trackID
    ELSE 0

\* -------------------------------------------------------------- resolver

WMin(x, y) == IF WLess(y, x) THEN y ELSE x

WMax(x, y) == IF WLess(x, y) THEN y ELSE x

\* d[lo : lo+size], cut at the end of d
Slice(d, lo, size) ==
    LET len   == DataLen(d)
        start == WMin(lo, len)
        end   == WMin(WAdd(lo, W(size)), len)
        zeros == WMax(W(0), WSub(WMin(end, d.pad), start))
        from  == WSub(WMax(start, d.pad), d.pad)[1]
        to    == WSub(WMax(end, d.pad), d.pad)[1]
    IN  [pad |-> zeros, bytes |-> SubSeq(d.bytes, from + 1, to)]

\* A trex (<<>> is nil): the movie-level defaults of one track.
TrexBox(trackID, dur, size, flags) ==
    <<[TrackID |-> trackID, DefaultSampleDuration |-> dur,
       DefaultSampleSize |-> size, DefaultSampleFlags |-> flags]>>

RECURSIVE SumDur(_)
SumDur(samples) ==
    IF samples = <<>> THEN W(0)
    ELSE U64(WAdd(W(Head(samples).Dur), SumDur(Tail(samples))))

\* trun.AddSampleDefaultValues(tfhd, trex): the trun with the fields its flags
\* leave out filled in from tfhd, else trex, else zero, and the total duration.
Trun_AddSampleDefaultValues(trun, tfhd, trex) ==
    LET defaultDur   == IF tfhd.HasDefaultSampleDuration
                        THEN tfhd.DefaultSampleDuration
                        ELSE IF trex # <<>> THEN trex[1].DefaultSampleDuration
                        ELSE 0
        defaultSize  == IF tfhd.HasDefaultSampleSize
                        THEN tfhd.DefaultSampleSize
                        ELSE IF trex # <<>> THEN trex[1].DefaultSampleSize
                        ELSE 0
        defaultFlags == IF tfhd.HasDefaultSampleFlags
                        THEN tfhd.DefaultSampleFlags
                        ELSE IF trex # <<>> THEN trex[1].DefaultSampleFlags
                        ELSE 0
        samples == [i \in DOMAIN trun.Samples |->
                      [Dur   |-> IF trun.HasSampleDuration
                                 THEN trun.Samples[i].Dur ELSE defaultDur,
                       Size  |-> IF trun.HasSampleSize
                                 THEN trun.Samples[i].Size ELSE defaultSize,
                       Flags |-> IF trun.HasSampleFlags
                                 THEN trun.Samples[i].Flags
                                 ELSE IF i = 1 /\ trun.HasFirstSampleFlags
                                 THEN trun.FirstSampleFlags
                                 ELSE defaultFlags,
                       Cto   |-> trun.Samples[i].Cto]]
    IN  [trun |-> [trun EXCEPT !.Samples = samples], totalDur |-> SumDur(samples)]

\* trun.GetFullSamples(offsetInMdat, baseDecodeTime, mdat): one FullSample per
\* sample, walking mdat.Data from offsetInMdat and the time from baseDecodeTime.
RECURSIVE Trun_GetFullSamples(_, _, _, _)
Trun_GetFullSamples(samples, offsetInMdat, baseDecodeTime, mdat) ==
    IF samples = <<>> THEN <<>>
    ELSE LET s == Head(samples) IN
         <<[Sample |-> s, DecodeTime |-> baseDecodeTime,
            Data |-> Slice(mdat.Data, offsetInMdat, s.Size)]>>
         \o Trun_GetFullSamples(Tail(samples),
                                U32(WAdd(offsetInMdat, W(s.Size))),
                                U64(WAdd(baseDecodeTime, W(s.Dur))), mdat)

\* baseOffset of one trun (lines 105-113)
BaseOffset(tfhd, trun, moofStartPos) ==
    LET baseOffset == IF tfhd.HasBaseDataOffset THEN tfhd.BaseDataOffset
                      ELSE IF tfhd.DefaultBaseIfMoof THEN moofStartPos
                      ELSE W(0)
    IN  IF trun.HasDataOffset
        THEN U64(WAdd(W(trun.DataOffset), baseOffset))
        ELSE baseOffset

\* The loop over traf.Truns that returns, with the error, the samples of the
\* truns before the failing one.
RECURSIVE ResolveTruns_KeepsSamples(_, _, _, _, _, _)
ResolveTruns_KeepsSamples(tfhd, trex, moofStartPos, mdat, k, acc) ==
    IF k > Len(acc.truns) THEN acc
    ELSE
    LET r      == Trun_AddSampleDefaultValues(acc.truns[k], tfhd, trex)
        truns1 == [acc.truns EXCEPT ![k] = r.trun]
        baseOffset == BaseOffset(tfhd, r.trun, moofStartPos)
    IN  IF mdat = <<>> THEN [acc EXCEPT !.truns = truns1, !.err = "panic"]
        ELSE
        LET mdatDataLength == DataLen(mdat[1].Data)
            offsetInMdat   == U64(WSub(baseOffset, mdat[1].PayloadAbsoluteOffset))
        IN  IF WLess(mdatDataLength, offsetInMdat)
            THEN [acc EXCEPT !.truns = truns1, !.err = "error"]
            ELSE ResolveTruns_KeepsSamples(tfhd, trex, moofStartPos, mdat, k + 1,
                   [truns    |-> truns1,
                    samples  |-> acc.samples \o
                                 Trun_GetFullSamples(r.trun.Samples,
                                     U32(offsetInMdat), acc.baseTime, mdat[1]),
                    offsets  |-> Append(acc.offsets, U32(offsetInMdat)),
                    baseTime |-> U64(WAdd(acc.baseTime, r.totalDur)),
                    err      |-> "nil"])

\* The loop over traf.Truns without line 120: every trun starts at tfdt's time.
RECURSIVE ResolveTruns_SameBaseTime(_, _, _, _, _, _)
ResolveTruns_SameBaseTime(tfhd, trex, moofStartPos, mdat, k, acc) ==
    IF k > Len(acc.truns) THEN acc
    ELSE
    LET r      == Trun_AddSampleDefaultValues(acc.truns[k], tfhd, trex)
        truns1 == [acc.truns EXCEPT ![k] = r.trun]
        baseOffset == BaseOffset(tfhd, r.trun, moofStartPos)
    IN  IF mdat = <<>> THEN [acc EXCEPT !.truns = truns1, !.err = "panic"]
        ELSE
        LET mdatDataLength == DataLen(mdat[1].Data)
            offsetInMdat   == U64(WSub(baseOffset, mdat[1].PayloadAbsoluteOffset))
        IN  IF WLess(mdatDataLength, offsetInMdat)
            THEN [acc EXCEPT !.truns = truns1, !.samples = <<>>, !.err = "error"]
            ELSE ResolveTruns_SameBaseTime(tfhd, trex, moofStartPos, mdat, k + 1,
                   [truns    |-> truns1,
                    samples  |-> acc.samples \o
                                 Trun_GetFullSamples(r.trun.Samples,
                                     U32(offsetInMdat), acc.baseTime, mdat[1]),
                    offsets  |-> Append(acc.offsets, U32(offsetInMdat)),
                    baseTime |-> acc.baseTime,
                    err      |-> "nil"])

\* The loop over traf.Truns (lines 103-121), from trun k on.  acc: the truns
\* as changed so far, the samples, the offsets handed to the truns, baseTime,
\* and err ("nil", "error", or "panic" when f.Mdat is nil).
RECURSIVE ResolveTruns(_, _, _, _, _, _)
ResolveTruns(tfhd, trex, moofStartPos, mdat, k, acc) ==
    IF k > Len(acc.truns) THEN acc
    ELSE
    LET r      == Trun_AddSampleDefaultValues(acc.truns[k], tfhd, trex)
        truns1 == [acc.truns EXCEPT ![k] = r.trun]
        baseOffset == BaseOffset(tfhd, r.trun, moofStartPos)
    IN  IF mdat = <<>> THEN [acc EXCEPT !.truns = truns1, !.err = "panic"]
        ELSE
        LET mdatDataLength == DataLen(mdat[1].Data)
            offsetInMdat   == U64(WSub(baseOffset, mdat[1].PayloadAbsoluteOffset))
        IN  IF WLess(mdatDataLength, offsetInMdat)
            THEN [acc EXCEPT !.truns = truns1, !.samples = <<>>, !.err = "error"]
            ELSE ResolveTruns(tfhd, trex, moofStartPos, mdat, k + 1,
                   [truns    |-> truns1,
                    samples  |-> acc.samples \o
                                 Trun_GetFullSamples(r.trun.Samples,
                                     U32(offsetInMdat), acc.baseTime, mdat[1]),
                    offsets  |-> Append(acc.offsets, U32(offsetInMdat)),
                    baseTime |-> U64(WAdd(acc.baseTime, r.totalDur)),
                    err      |-> "nil"])

\* Traf selection without foundTrak: the loop variable as the loop leaves it,
\* the last traf when none matches.
SelectTraf_LoopVariable(trafs, trex) ==
    IF trex # <<>>
    THEN IF trex[1].TrackID \in TrackIDsOf(trafs)
         THEN FirstTrafWith(trafs, trex[1].TrackID) ELSE Len(trafs)
    ELSE IF trafs = <<>> THEN 0 ELSE 1

\* The traf the code resolves (lines 84-98): its index in moof.Trafs, 0 when a
\* trex is given and no traf has its track ID; moof.Traf is the first traf.
SelectTraf(trafs, trex) ==
    IF trex # <<>>
    THEN FirstTrafWith(trafs, trex[1].TrackID)
    ELSE IF trafs = <<>> THEN 0 ELSE 1

\* f.GetFullSamples(trex): the heap after the call (AddSampleDefaultValues
\* writes into the truns), the traf resolved, the samples, the offset handed to
\* each trun, and err: "nil", "error" or "panic" (a nil pointer).
GetFullSamples(fr, hp, trex) ==
    LET none == [heap |-> hp, traf |-> 0, samples |-> <<>>, offsets |-> <<>>]
    IN
    IF fr.Moof = 0 THEN none @@ [err |-> "panic"]
    ELSE
    LET moof == hp[fr.Moof]
        i    == SelectTraf(moof.Trafs, trex)
    IN  IF i = 0
        THEN none @@ [err |-> IF trex # <<>> THEN "nil" ELSE "panic"]
        ELSE IF moof.Trafs[i].Tfdt = <<>>
        THEN [none EXCEPT !.traf = i] @@ [err |-> "panic"]
        ELSE
        LET traf == moof.Trafs[i]
            acc  == ResolveTruns(traf.Tfhd, trex, moof.StartPos,
                        IF fr.Mdat = 0 THEN <<>> ELSE <<hp[fr.Mdat]>>, 1,
                        [truns |-> traf.Truns, samples |-> <<>>,
                         offsets |-> <<>>,
                         baseTime |-> traf.Tfdt[1].BaseMediaDecodeTime,
                         err |-> "nil"])
        IN  [heap    |-> [hp EXCEPT ![fr.Moof].Trafs[i].Truns = acc.truns],
             traf    |-> i,
             samples |-> acc.samples,
             offsets |-> acc.offsets,
             err     |-> acc.err]

\* ------------------------------------------------------------- box codec

boxHeaderSize == 8

nrWvttBytesBeforeChildren == 16

\* Big-endian integers (binary.BigEndian, SliceReader, SliceWriter).  Values
\* stay below 2^31: the first byte of a 32-bit field is at most 127 here.
Uint16(b) == b[1] * 256 + b[2]

Uint32(b) == ((b[1] * 256 + b[2]) * 256 + b[3]) * 256 + b[4]

PutUint16(n) == <<(n \div 256) % 256, n % 256>>

PutUint32(n) ==
    <<(n \div 16777216) % 256, (n \div 65536) % 256, (n \div 256) % 256, n % 256>>

Zeros(n) == [i \in 1..n |-> 0]

\* The first n bytes of the slice ioutil.ReadAll returned, data[0:n]: the
\* bytes read and, past them, the zero bytes of the buffer's spare capacity.
FirstBytes(data, n) == [i \in 1..n |-> IF i <= Len(data) THEN data[i] ELSE 0]

\* The four bytes of a box type.
BoxName(type) ==
    CASE type = "wvtt" -> <<119, 118, 116, 116>>
      [] type = "vttC" -> <<118, 116, 116, 67>>
      [] type = "vlab" -> <<118, 108, 97, 98>>
      [] type = "vtte" -> <<118, 116, 116, 101>>
      [] type = "vttc" -> <<118, 116, 116, 99>>
      [] type = "vsid" -> <<118, 115, 105, 100>>
      [] type = "ctim" -> <<99, 116, 105, 109>>
      [] type = "iden" -> <<105, 100, 101, 110>>
      [] type = "sttg" -> <<115, 116, 116, 103>>
      [] type = "payl" -> <<112, 97, 121, 108>>
      [] type = "vtta" -> <<118, 116, 116, 97>>
      [] type = "nmhd" -> <<110, 109, 104, 100>>
      [] type = "btrt" -> <<98, 116, 114, 116>>
      [] OTHER         -> <<102, 114, 101, 101>>

KnownTypes ==
    {"wvtt", "vttC", "vlab", "vtte", "vttc", "vsid", "ctim", "iden", "sttg",
     "payl", "vtta", "nmhd", "btrt"}

BoxType(name) ==
    IF \E t \in KnownTypes : BoxName(t) = name
    THEN CHOOSE t \in KnownTypes : BoxName(t) = name
    ELSE "unknown"

\* ---- the boxes

NewWvttBox ==
    [Type |-> "wvtt", VttC |-> <<>>, Vlab |-> <<>>, Btrt |-> <<>>,
     Children |-> <<>>, DataReferenceIndex |-> 1]

WvttBox == [NewWvttBox EXCEPT !.DataReferenceIndex = 0]

\* An AddChild that sets an accessor only while it is nil.
WvttBox_AddChild_KeepsFirst(wb, b) ==
    [wb EXCEPT !.VttC = IF b.Type = "vttC" /\ @ = <<>> THEN <<b>> ELSE @,
               !.Vlab = IF b.Type = "vlab" /\ @ = <<>> THEN <<b>> ELSE @,
               !.Btrt = IF b.Type = "btrt" /\ @ = <<>> THEN <<b>> ELSE @,
               !.Children = Append(@, b)]

\* w.AddChild(b); an accessor is <<>> (nil) or <<b>>
WvttBox_AddChild(wb, b) ==
    [wb EXCEPT !.VttC = IF b.Type = "vttC" THEN <<b>> ELSE @,
               !.Vlab = IF b.Type = "vlab" THEN <<b>> ELSE @,
               !.Btrt = IF b.Type = "btrt" THEN <<b>> ELSE @,
               !.Children = Append(@, b)]

VttcBox ==
    [Type |-> "vttc", Vsid |-> <<>>, Iden |-> <<>>, Ctim |-> <<>>,
     Sttg |-> <<>>, Payl |-> <<>>, Children |-> <<>>]

VttcBox_AddChild(vb, b) ==
    [vb EXCEPT !.Vsid = IF b.Type = "vsid" THEN <<b>> ELSE @,
               !.Iden = IF b.Type = "iden" THEN <<b>> ELSE @,
               !.Ctim = IF b.Type = "ctim" THEN <<b>> ELSE @,
               !.Sttg = IF b.Type = "sttg" THEN <<b>> ELSE @,
               !.Payl = IF b.Type = "payl" THEN <<b>> ELSE @,
               !.Children = Append(@, b)]

\* ---- Size and Encode

RECURSIVE Size(_)
RECURSIVE SizeOfAll(_)
SizeOfAll(children) ==
    IF children = <<>> THEN 0 ELSE Size(Head(children)) + SizeOfAll(Tail(children))

containerSize(children) == boxHeaderSize + SizeOfAll(children)

Size(b) ==
    CASE b.Type = "wvtt" -> nrWvttBytesBeforeChildren + SizeOfAll(b.Children)
      [] b.Type = "vttC" -> boxHeaderSize + Len(b.Config)
      [] b.Type = "vlab" -> boxHeaderSize + Len(b.SourceLabel)
      [] b.Type = "vtte" -> boxHeaderSize
      [] b.Type = "vttc" -> containerSize(b.Children)
      [] b.Type = "vsid" -> boxHeaderSize + 4
      [] b.Type = "ctim" -> boxHeaderSize + Len(b.CueCurrentTime)
      [] b.Type = "iden" -> boxHeaderSize + Len(b.CueID)
      [] b.Type = "sttg" -> boxHeaderSize + Len(b.Settings)
      [] b.Type = "payl" -> boxHeaderSize + Len(b.CueText)
      [] b.Type = "vtta" -> boxHeaderSize + Len(b.CueAdditionalText)
      [] b.Type = "nmhd" -> boxHeaderSize + 4
      [] OTHER           -> Len(b.Header) + Len(b.Data)

\* EncodeHeader(b, w): the 32-bit size b.Size() and the type
EncodeHeader(b) == PutUint32(Size(b)) \o BoxName(b.Type)

RECURSIVE Encode(_)
RECURSIVE EncodeAll(_)
EncodeAll(children) ==
    IF children = <<>> THEN <<>>
    ELSE Encode(Head(children)) \o EncodeAll(Tail(children))

EncodeContainer(b) == EncodeHeader(b) \o EncodeAll(b.Children)

Encode(b) ==
    CASE b.Type = "wvtt" ->
            EncodeHeader(b) \o Zeros(6) \o PutUint16(b.DataReferenceIndex)
            \o EncodeAll(b.Children)
      [] b.Type = "vttC" -> EncodeHeader(b) \o b.Config
      [] b.Type = "vlab" -> EncodeHeader(b) \o b.SourceLabel
      [] b.Type = "vtte" -> EncodeHeader(b)
      [] b.Type = "vttc" -> EncodeContainer(b)
      [] b.Type = "vsid" -> EncodeHeader(b) \o PutUint32(b.SourceID)
      [] b.Type = "ctim" -> EncodeHeader(b) \o b.CueCurrentTime
      [] b.Type = "iden" -> EncodeHeader(b) \o b.CueID
      [] b.Type = "sttg" -> EncodeHeader(b) \o b.Settings
      [] b.Type = "payl" -> EncodeHeader(b) \o b.CueText
      [] b.Type = "vtta" -> EncodeHeader(b) \o b.CueAdditionalText
      [] b.Type = "nmhd" ->
            EncodeHeader(b) \o PutUint32(b.Version * 16777216 + b.Flags)
      [] OTHER           -> b.Header \o b.Data

\* ---- Decode

flagsMask == 16777215

uuidName == <<117, 117, 105, 100>>

\* decodeHeader(r): size, type and header length of the box that starts b.
\* huge says the 64-bit size is 2^32 or more; size is then its low word.
decodeHeader(b) ==
    IF b = <<>> THEN [err |-> "EOF"]
    ELSE IF Len(b) < boxHeaderSize THEN [err |-> "MalformedHeader"]
    ELSE
      LET size32 == Uint32(SubSeq(b, 1, 4))
          name == SubSeq(b, 5, 8)
          large == size32 = 1
          hdrlen == boxHeaderSize + (IF large THEN 8 ELSE 0)
                                  + (IF name = uuidName THEN 16 ELSE 0)
      IN  IF Len(b) < hdrlen THEN [err |-> "MalformedHeader"]
          ELSE
            LET size == IF large THEN Uint32(SubSeq(b, 13, 16)) ELSE size32
                huge == large /\ SubSeq(b, 9, 12) # Zeros(4)
            IN  IF ~huge /\ size # 0 /\ size < hdrlen
                THEN [err |-> "MalformedHeader"]
                ELSE [err |-> "nil", size |-> size, huge |-> huge,
                      hdrlen |-> hdrlen, name |-> name]

\* What io.LimitReader(r, hdr.size - hdr.hdrlen) yields of the bytes b that
\* start with the header.
Payload(b, hdr) ==
    SubSeq(b, hdr.hdrlen + 1, IF hdr.size < Len(b) THEN hdr.size ELSE Len(b))

Ok(b, used) == [err |-> "nil", box |-> b, used |-> used]

Failed(e) == [err |-> e]

\* string(data) keeps the bytes of data, whatever they are: a Go string is
\* a sequence of bytes.
DecodeVttC(hdr, data) == Ok([Type |-> "vttC", Config |-> data], Len(data))

DecodeVlab(hdr, data) == Ok([Type |-> "vlab", SourceLabel |-> data], Len(data))

\* reads nothing of r
DecodeVtte(hdr, data) == Ok([Type |-> "vtte"], 0)

\* data[0:4] of fewer than four bytes read: in range when the buffer ReadAll
\* grew has spare capacity, a run-time panic when it has not.
DecodeVsid(hdr, data, spare) ==
    IF Len(data) < 4 /\ ~spare THEN Failed("panic")
    ELSE Ok([Type |-> "vsid", SourceID |-> Uint32(FirstBytes(data, 4))], Len(data))

DecodeCtim(hdr, data) == Ok([Type |-> "ctim", CueCurrentTime |-> data], Len(data))

DecodeIden(hdr, data) == Ok([Type |-> "iden", CueID |-> data], Len(data))

DecodeSttg(hdr, data) == Ok([Type |-> "sttg", Settings |-> data], Len(data))

DecodePayl(hdr, data) == Ok([Type |-> "payl", CueText |-> data], Len(data))

DecodeVtta(hdr, data) == Ok([Type |-> "vtta", CueAdditionalText |-> data], Len(data))

\* s.ReadUint32() is s.slice[pos:pos+4], as data[0:4] in DecodeVsid
DecodeNmhd(hdr, data, spare) ==
    IF Len(data) < 4 /\ ~spare THEN Failed("panic")
    ELSE
      LET versionAndFlags == Uint32(FirstBytes(data, 4))
      IN  Ok([Type |-> "nmhd", Version |-> versionAndFlags \div (flagsMask + 1),
              Flags |-> versionAndFlags % (flagsMask + 1)], Len(data))

\* The carrier of a box no decoder of the model reads: header and payload
\* as they came.
DecodeUnknown(type, header, data) ==
    Ok([Type |-> type, Header |-> header, Data |-> data], Len(data))

RECURSIVE DecodeBox(_, _)
RECURSIVE DecodeContainerChildren(_, _, _, _, _, _)
RECURSIVE WvttChildren(_, _, _, _, _)

\* the loop of DecodeWvtt: rest is what restReader still holds
WvttChildren(rest, pos, end, wb, spare) ==
    LET r == DecodeBox(rest, spare)
    IN  IF r.err = "EOF" THEN Ok(wb, 0)
        ELSE IF r.err # "nil" THEN Failed(r.err)
        ELSE
          LET added == WvttBox_AddChild(wb, r.box)
              next == pos + Size(r.box)
          IN  IF next = end THEN Ok(added, 0)
              ELSE IF next > end THEN Failed("Bad size in wvtt")
              ELSE WvttChildren(r.rest, next, end, added, spare)

\* s.RemainingBytes() is s.slice[8:]: a run-time panic when fewer than
\* eight bytes were read, whatever the buffer's capacity.
DecodeWvtt(hdr, data, spare) ==
    IF Len(data) < 8 THEN Failed("panic")
    ELSE
      LET wb == [WvttBox EXCEPT !.DataReferenceIndex = Uint16(SubSeq(data, 7, 8))]
          r == WvttChildren(SubSeq(data, 9, Len(data)), nrWvttBytesBeforeChildren,
                            hdr.size, wb, spare)
      IN  IF r.err = "nil" THEN Ok(r.box, Len(data)) ELSE r

\* DecodeContainerChildren(hdr, startPos, endPos, r): the children decoded
\* so far are l, used counts the bytes read of r.
DecodeContainerChildren(rest, pos, endPos, l, used, spare) ==
    IF pos = endPos THEN [err |-> "nil", l |-> l, used |-> used]
    ELSE IF pos > endPos THEN Failed("SizeMismatch")
    ELSE
      LET r == DecodeBox(rest, spare)
      IN  IF r.err = "EOF" THEN [err |-> "nil", l |-> l, used |-> used]
          ELSE IF r.err # "nil" THEN Failed(r.err)
          ELSE DecodeContainerChildren(r.rest, pos + r.size, endPos,
                                       Append(l, r.box), used + r.size, spare)

RECURSIVE AddChildren(_, _)
\* for _, b := range l { m.AddChild(b) }
AddChildren(m, l) ==
    IF l = <<>> THEN m ELSE AddChildren(VttcBox_AddChild(m, Head(l)), Tail(l))

DecodeVttc(hdr, data, spare) ==
    LET r == DecodeContainerChildren(data, 8, hdr.size, <<>>, 0, spare)
    IN  IF r.err # "nil" THEN Failed(r.err)
        ELSE Ok(AddChildren(VttcBox, r.l), r.used)

\* decoders[hdr.name](hdr, startPos, r), data being what r yields
Decode(hdr, header, data, spare) ==
    LET type == BoxType(hdr.name)
    IN  CASE type = "wvtt" -> DecodeWvtt(hdr, data, spare)
          [] type = "vttC" -> DecodeVttC(hdr, data)
          [] type = "vlab" -> DecodeVlab(hdr, data)
          [] type = "vtte" -> DecodeVtte(hdr, data)
          [] type = "vttc" -> DecodeVttc(hdr, data, spare)
          [] type = "vsid" -> DecodeVsid(hdr, data, spare)
          [] type = "ctim" -> DecodeCtim(hdr, data)
          [] type = "iden" -> DecodeIden(hdr, data)
          [] type = "sttg" -> DecodeSttg(hdr, data)
          [] type = "payl" -> DecodePayl(hdr, data)
          [] type = "vtta" -> DecodeVtta(hdr, data)
          [] type = "nmhd" -> DecodeNmhd(hdr, data, spare)
          [] OTHER         -> DecodeUnknown(type, header, data)

\* DecodeBox(startPos, r): the next box of the bytes b and the bytes after
\* it.  A decoder that did not read exactly the declared payload is a
\* MalformedBox.
DecodeBox(b, spare) ==
    LET hdr == decodeHeader(b)
    IN  IF hdr.err # "nil" THEN Failed(hdr.err)
        ELSE IF hdr.huge \/ hdr.size = 0 THEN Failed("MalformedBox")
        ELSE
          LET data == Payload(b, hdr)
              r == Decode(hdr, SubSeq(b, 1, hdr.hdrlen), data, spare)
          IN  IF r.err # "nil" THEN Failed(r.err)
              ELSE IF r.used # hdr.size - hdr.hdrlen THEN Failed("MalformedBox")
              ELSE [err |-> "nil", box |-> r.box, size |-> hdr.size,
                    rest |-> SubSeq(b, hdr.size + 1, Len(b))]

\* ---------------------------------------------------------------- inputs

FullSample(decodeTime, dur, data) ==
    [Sample |-> [Flags |-> 0, Dur |-> dur, Size |-> Len(data), Cto |-> 0],
     DecodeTime |-> decodeTime, Data |-> data]

SampleInputs ==
    { FullSample(W(1000), 10, <<222, 173>>),
      FullSample(W(1010), 20, <<190>>),
      FullSample(W(7), 10, <<>>) }

TrackIDInputs == {1, 2, 3}

TrackIDsInputs == { <<>>, <<1>>, <<1, 2>>, <<3, 3>> }

\* --------------------------------------------------------------- actions

NoCodec == inp = <<>> /\ box = [err |-> "none"] /\ out = <<>>

NoContainers == w = NewWvttBox /\ v = VttcBox

Init ==
    /\ pc = "start"
    /\ f = NewFragment
    /\ heap = CallerBoxes
    /\ calls = <<>>
    /\ ret = [op |-> "none", err |-> "nil"]
    /\ NoCodec
    /\ NoContainers

Called(op, arg) == calls' = Append(calls, [op |-> op, arg |-> arg])

DoNewFragment ==
    /\ pc = "start"
    /\ pc' = "built"
    /\ f' = NewFragment
    /\ Called("NewFragment", <<>>)
    /\ ret' = [op |-> "NewFragment", err |-> "nil"]
    /\ UNCHANGED heap
    /\ UNCHANGED <<codecVars, w, v>>

DoCreateFragment ==
    /\ pc = "start"
    /\ \E trackID \in TrackIDInputs :
         LET r == CreateFragment(heap, 7, trackID) IN
         /\ f' = r.f
         /\ heap' = r.heap
         /\ Called("CreateFragment", <<trackID>>)
    /\ pc' = "built"
    /\ ret' = [op |-> "CreateFragment", err |-> "nil"]
    /\ UNCHANGED <<codecVars, w, v>>

DoCreateMultiTrackFragment ==
    /\ pc = "start"
    /\ \E trackIDs \in TrackIDsInputs :
         LET r == CreateMultiTrackFragment(heap, 7, trackIDs) IN
         /\ f' = r.f
         /\ heap' = r.heap
         /\ Called("CreateMultiTrackFragment", trackIDs)
    /\ pc' = "built"
    /\ ret' = [op |-> "CreateMultiTrackFragment", err |-> "nil"]
    /\ UNCHANGED <<codecVars, w, v>>

MoreOps == pc = "built" /\ Len(calls) <= MaxOps

MoreAdds == pc = "children" /\ Len(calls) < MaxAdds

DoAddChild ==
    /\ MoreOps \/ MoreAdds
    /\ \E b \in DOMAIN heap :
         /\ f' = Fragment_AddChild(f, heap, b)
         /\ Called("AddChild", b)
    /\ ret' = [op |-> "AddChild", err |-> "nil"]
    /\ UNCHANGED <<pc, heap>>
    /\ UNCHANGED <<codecVars, w, v>>

DoAddFullSample ==
    /\ MoreOps
    /\ \E s \in SampleInputs :
         LET r == AddFullSample(f, heap, s) IN
         /\ heap' = r.heap
         /\ ret' = [op |-> "AddFullSample",
                    err |-> IF r.panic THEN "panic" ELSE "nil"]
         /\ Called("AddFullSample", s)
    /\ UNCHANGED <<pc, f>>
    /\ UNCHANGED <<codecVars, w, v>>

DoAddFullSampleToTrack ==
    /\ MoreOps
    /\ \E s \in SampleInputs, trackID \in TrackIDInputs :
         /\ ret' = [op |-> "AddFullSampleToTrack",
                    err |-> AddFullSampleToTrack(f, heap, s, trackID)]
         /\ Called("AddFullSampleToTrack", <<s, trackID>>)
    /\ UNCHANGED <<pc, f, heap>>
    /\ UNCHANGED <<codecVars, w, v>>

Next ==
    \/ DoNewFragment
    \/ DoCreateFragment
    \/ DoCreateMultiTrackFragment
    \/ DoAddChild
    \/ DoAddFullSample
    \/ DoAddFullSampleToTrack

Spec == Init /\ [][Next]_vars

\* ------------------------------------------- resolver: inputs and action

Tfhd(trackID, hasBase, base, baseIsMoof, hasDefaults) ==
    [CreateTfhd(trackID) EXCEPT
        !.HasBaseDataOffset = hasBase, !.BaseDataOffset = base,
        !.DefaultBaseIfMoof = baseIsMoof,
        !.HasDefaultSampleDuration = hasDefaults, !.DefaultSampleDuration = 200,
        !.HasDefaultSampleSize = hasDefaults, !.DefaultSampleSize = 1,
        !.HasDefaultSampleFlags = hasDefaults, !.DefaultSampleFlags = 5]

TfhdInputs ==
    { Tfhd(1, FALSE, W(0), FALSE, FALSE),
      Tfhd(1, FALSE, W(0), TRUE, FALSE),
      Tfhd(1, FALSE, W(0), TRUE, TRUE),
      Tfhd(1, TRUE, W(120), FALSE, FALSE),
      Tfhd(1, TRUE, W(4), TRUE, FALSE),
      Tfhd(1, TRUE, <<0, 1, 0>>, FALSE, FALSE) }

Sample(dur, size, flags) == [Dur |-> dur, Size |-> size, Flags |-> flags, Cto |-> 0]

Trun(hasOffset, offset, perSample, samples) ==
    [CreateTrun EXCEPT
        !.HasDataOffset = hasOffset, !.DataOffset = offset,
        !.HasSampleDuration = perSample, !.HasSampleSize = perSample,
        !.HasSampleFlags = perSample,
        !.HasFirstSampleFlags = ~perSample, !.FirstSampleFlags = 170,
        !.Samples = samples]

TrunInputs ==
    { Trun(FALSE, 0, TRUE, <<Sample(10, 1, 187), Sample(10, 2, 204)>>),
      Trun(TRUE, 122, TRUE, <<Sample(20, 1, 187), Sample(20, 1, 204)>>),
      Trun(TRUE, -4, TRUE, <<Sample(50, 1, 0)>>),
      Trun(TRUE, 120, FALSE, <<Sample(0, 0, 0), Sample(0, 0, 0)>>),
      Trun(TRUE, 124, FALSE, <<>>) }

RECURSIVE SeqsUpTo(_, _)
SeqsUpTo(S, n) ==
    IF n = 0 THEN {<<>>}
    ELSE LET shorter == SeqsUpTo(S, n - 1) IN
         shorter \cup { Append(q, x) : q \in shorter, x \in S }

TfdtInputs ==
    { <<>>, <<[BaseMediaDecodeTime |-> W(500)]>>,
      <<[BaseMediaDecodeTime |-> <<-5, 0, 1>>]>> }

\* Trafs of other shape beside the first: one of track 2, one more of track 1.
OtherTraf(trackID) ==
    Traf(Tfhd(trackID, FALSE, W(0), FALSE, FALSE),
         <<[BaseMediaDecodeTime |-> W(9000)]>>,
         <<Trun(FALSE, 0, TRUE, <<Sample(7, 1, trackID)>>)>>)

TrafsInputs ==
    {<<>>} \cup
    UNION { { <<t>>, <<t, OtherTraf(2)>>, <<OtherTraf(2), t>>, <<t, OtherTraf(1)>> } :
            t \in { Traf(tfhd, tfdt, truns) :
                       tfhd \in TfhdInputs, tfdt \in TfdtInputs,
                       truns \in SeqsUpTo(TrunInputs, MaxTruns) } }

Mdat(payloadAbsoluteOffset, data) ==
    [BoxObj("mdat") EXCEPT !.PayloadAbsoluteOffset = payloadAbsoluteOffset,
                           !.Data = data]

MdatInputs ==
    { Mdat(W(0), [pad |-> W(0), bytes |-> <<1, 2, 3, 4>>]),
      Mdat(W(120), [pad |-> W(0), bytes |-> <<1, 2, 3, 4>>]),
      Mdat(W(108), NoData),
      Mdat(W(0), [pad |-> <<1, 1, 0>>, bytes |-> <<1, 2>>]) }

MoofStartPosInputs == { W(0), W(100) }

TrexInputs ==
    { <<>>, TrexBox(1, 100, 2, 9), TrexBox(2, 100, 2, 9), TrexBox(3, 100, 2, 9) }

\* A fragment as the file parser leaves it: a moof and an mdat added in order.
\* Also the fragment whose mdat has not been added.
ResolverInit ==
    /\ pc = "parsed"
    /\ \E startPos \in MoofStartPosInputs, trafs \in TrafsInputs,
          mdat \in MdatInputs, withMdat \in BOOLEAN :
          LET moof == [BoxObj("moof") EXCEPT !.StartPos = startPos,
                                            !.Trafs = trafs]
              f1   == Fragment_AddChild(NewFragment, <<moof>>, 1)
          IN  /\ heap = <<moof, mdat>>
              /\ f = IF withMdat THEN Fragment_AddChild(f1, heap, 2) ELSE f1
              /\ withMdat \/ (startPos = W(0) /\ mdat.Data = NoData)
    /\ calls = <<>>
    /\ ret = [op |-> "none", err |-> "nil"]
    /\ NoCodec
    /\ NoContainers

DoGetFullSamples ==
    /\ pc = "parsed"
    /\ calls = <<>>
    /\ \E trex \in TrexInputs :
         LET r == GetFullSamples(f, heap, trex) IN
         /\ heap' = r.heap
         /\ ret' = [op |-> "GetFullSamples", err |-> r.err, traf |-> r.traf,
                    samples |-> r.samples, offsets |-> r.offsets]
         /\ Called("GetFullSamples", trex)
    /\ UNCHANGED <<pc, f>>
    /\ UNCHANGED <<codecVars, w, v>>

ResolverNext == DoGetFullSamples

ResolverSpec == ResolverInit /\ [][ResolverNext]_vars

\* ---------------------------------------------- codec: inputs and actions

\* The bytes of a box of the 32-bit size form.
BoxBytes(type, payload) ==
    PutUint32(boxHeaderSize + Len(payload)) \o BoxName(type) \o payload

TextTypes == {"vttC", "vlab", "ctim", "iden", "sttg", "payl", "vtta"}

TextInputs ==
    {BoxBytes(t, p) : t \in TextTypes, p \in SeqsUpTo({97, 255}, MaxText)}

VtteInputs == {BoxBytes("vtte", p) : p \in {<<>>, <<1>>}}

VsidInputs ==
    {BoxBytes("vsid", p) :
       p \in {<<>>, <<0, 1>>, <<0, 0, 0, 1>>, <<1, 2, 3, 4>>, <<0, 0, 0, 1, 255>>}}

NmhdInputs ==
    {BoxBytes("nmhd", p) :
       p \in {<<>>, <<0, 0>>, <<0, 0, 0, 0>>, <<1, 0, 0, 5>>, <<0, 0, 0, 0, 9>>}}

VttcChildInputs ==
    {BoxBytes("vsid", <<0, 0, 0, 1>>), BoxBytes("vsid", <<0, 0, 0, 2, 9>>),
     BoxBytes("iden", <<97>>), BoxBytes("ctim", <<>>), BoxBytes("sttg", <<97>>),
     BoxBytes("payl", <<97, 98>>), BoxBytes("free", <<0>>),
     BoxBytes("vtte", <<1>>)}

VttcInputs ==
    {BoxBytes("vttc", Concat(kids)) : kids \in SeqsUpTo(VttcChildInputs, MaxKids)}

\* reserved bytes and data_reference_index
WvttPrefixInputs ==
    {Zeros(6) \o <<0, 1>>, <<0, 0, 0, 0, 0, 7, 0, 1>>, Zeros(6) \o <<1, 2>>}

WvttChildInputs ==
    {BoxBytes("vttC", <<97>>), BoxBytes("vlab", <<>>), BoxBytes("btrt", <<0, 0>>),
     BoxBytes("vsid", <<0, 1>>), BoxBytes("vtte", <<>>), BoxBytes("vttc", <<>>)}

WvttInputs ==
    {BoxBytes("wvtt", prefix \o Concat(kids)) :
       prefix \in WvttPrefixInputs, kids \in SeqsUpTo(WvttChildInputs, MaxKids)}
    \cup {BoxBytes("wvtt", p) : p \in {<<>>, <<0, 0, 0>>}}

BoxInputs ==
    TextInputs \cup VtteInputs \cup VsidInputs \cup NmhdInputs \cup VttcInputs
    \cup WvttInputs

CodecInit ==
    /\ pc = "bytes"
    /\ inp \in BoxInputs
    /\ box = [err |-> "none"]
    /\ out = <<>>
    /\ f = NewFragment
    /\ heap = <<>>
    /\ calls = <<>>
    /\ ret = [op |-> "none", err |-> "nil"]
    /\ NoContainers

Hdr == decodeHeader(inp)

\* the registry hands the box to the decoder of its type
Dispatched(type) == pc = "bytes" /\ Hdr.err = "nil" /\ BoxType(Hdr.name) = type

Decoded(r) ==
    /\ box' = r
    /\ pc' = "decoded"
    /\ UNCHANGED <<inp, out, fragmentVars, calls, ret, w, v>>

DoDecodeVttC == Dispatched("vttC") /\ Decoded(DecodeVttC(Hdr, Payload(inp, Hdr)))

DoDecodeVlab == Dispatched("vlab") /\ Decoded(DecodeVlab(Hdr, Payload(inp, Hdr)))

DoDecodeVtte == Dispatched("vtte") /\ Decoded(DecodeVtte(Hdr, Payload(inp, Hdr)))

DoDecodeCtim == Dispatched("ctim") /\ Decoded(DecodeCtim(Hdr, Payload(inp, Hdr)))

DoDecodeIden == Dispatched("iden") /\ Decoded(DecodeIden(Hdr, Payload(inp, Hdr)))

DoDecodeSttg == Dispatched("sttg") /\ Decoded(DecodeSttg(Hdr, Payload(inp, Hdr)))

DoDecodePayl == Dispatched("payl") /\ Decoded(DecodePayl(Hdr, Payload(inp, Hdr)))

DoDecodeVtta == Dispatched("vtta") /\ Decoded(DecodeVtta(Hdr, Payload(inp, Hdr)))

DoDecodeVsid ==
    /\ Dispatched("vsid")
    /\ \E spare \in BOOLEAN : Decoded(DecodeVsid(Hdr, Payload(inp, Hdr), spare))

DoDecodeNmhd ==
    /\ Dispatched("nmhd")
    /\ \E spare \in BOOLEAN : Decoded(DecodeNmhd(Hdr, Payload(inp, Hdr), spare))

DoDecodeVttc ==
    /\ Dispatched("vttc")
    /\ \E spare \in BOOLEAN : Decoded(DecodeVttc(Hdr, Payload(inp, Hdr), spare))

DoDecodeWvtt ==
    /\ Dispatched("wvtt")
    /\ \E spare \in BOOLEAN : Decoded(DecodeWvtt(Hdr, Payload(inp, Hdr), spare))

\* b.Encode(w) on the box a decoder returned
DoEncode ==
    /\ pc = "decoded"
    /\ box.err = "nil"
    /\ out' = Encode(box.box)
    /\ pc' = "encoded"
    /\ UNCHANGED <<inp, box, fragmentVars, calls, ret, w, v>>

CodecNext ==
    \/ DoDecodeVttC
    \/ DoDecodeVlab
    \/ DoDecodeVtte
    \/ DoDecodeCtim
    \/ DoDecodeIden
    \/ DoDecodeSttg
    \/ DoDecodePayl
    \/ DoDecodeVtta
    \/ DoDecodeVsid
    \/ DoDecodeNmhd
    \/ DoDecodeVttc
    \/ DoDecodeWvtt
    \/ DoEncode

CodecSpec == CodecInit /\ [][CodecNext]_vars

\* ------------------------------------------- children: inputs and actions

\* The boxes a caller holds, two of a type among them.
ChildBoxes == CallerBoxes \o <<BoxObj("moof"), BoxObj("prft")>>

\* A box as its owner sees it: its type and which box it is.
Child(type, id) == [Type |-> type, id |-> id]

WvttBoxInputs ==
    {Child("vttC", 1), Child("vttC", 2), Child("vlab", 3), Child("btrt", 4),
     Child("vsid", 5)}

VttcBoxInputs ==
    {Child("vsid", 1), Child("vsid", 2), Child("iden", 3), Child("ctim", 4),
     Child("sttg", 5), Child("payl", 6), Child("vttC", 7)}

ChildInit ==
    /\ pc = "children"
    /\ f = NewFragment
    /\ heap = ChildBoxes
    /\ w \in {NewWvttBox, WvttBox}
    /\ v = VttcBox
    /\ calls = <<>>
    /\ ret = [op |-> "none", err |-> "nil"]
    /\ NoCodec

DoWvttAddChild ==
    /\ MoreAdds
    /\ \E b \in WvttBoxInputs :
         /\ w' = WvttBox_AddChild(w, b)
         /\ Called("WvttBox.AddChild", b)
    /\ ret' = [op |-> "WvttBox.AddChild", err |-> "nil"]
    /\ UNCHANGED <<pc, fragmentVars, codecVars, v>>

DoVttcAddChild ==
    /\ MoreAdds
    /\ \E b \in VttcBoxInputs :
         /\ v' = VttcBox_AddChild(v, b)
         /\ Called("VttcBox.AddChild", b)
    /\ ret' = [op |-> "VttcBox.AddChild", err |-> "nil"]
    /\ UNCHANGED <<pc, fragmentVars, codecVars, w>>

ChildNext == DoAddChild \/ DoWvttAddChild \/ DoVttcAddChild

ChildSpec == ChildInit /\ [][ChildNext]_vars

\* ================================================================ claims

LastCall == calls[Len(calls)]

Ctor == calls[1].op

\* C1: AddFullSampleToTrack(sample, trackID) returns an error whenever no traf
\* of the fragment's moof has tfhd.TrackID = trackID, whether the moof has
\* zero, one or several trafs.
C1_UnknownTrackIsError ==
    ( /\ pc = "built"
      /\ ret.op = "AddFullSampleToTrack"
      /\ f.Moof # 0
      /\ LastCall.arg[2] \notin TrackIDsOf(heap[f.Moof].Trafs) )
    => ret.err = "error"

\* C2: when AddFullSampleToTrack(sample, trackID) succeeds on a fragment whose
\* moof has a traf with that track ID, that traf's current trun has one sample
\* more, the sample, and sample.Data is at the end of mdat.Data.
C2_SampleAppendedToTrack ==
    [][ ( /\ pc = "built"
          /\ calls' # calls
          /\ ret'.op = "AddFullSampleToTrack"
          /\ ret'.err = "nil"
          /\ f.Mdat # 0
          /\ LastCall'.arg[2] \in TrackIDsOf(heap[f.Moof].Trafs) )
        => LET s == LastCall'.arg[1]
               i == FirstTrafWith(heap[f.Moof].Trafs, LastCall'.arg[2])
               n == Len(heap[f.Moof].Trafs[i].Truns)
           IN  /\ n > 0
               /\ heap'[f.Moof].Trafs[i].Truns[n].Samples =
                     Append(heap[f.Moof].Trafs[i].Truns[n].Samples, s.Sample)
               /\ heap'[f.Mdat].Data.bytes = heap[f.Mdat].Data.bytes \o s.Data
      ]_vars

OnlyAddFullSample ==
    /\ pc = "built"
    /\ Ctor = "CreateFragment"
    /\ Len(calls) >= 2
    /\ \A i \in 2..Len(calls) : calls[i].op = "AddFullSample"

\* C3: on a fragment built by CreateFragment, after AddFullSample calls with
\* samples s1..sn (n >= 1) and no other call, tfdt.BaseMediaDecodeTime is
\* s1.DecodeTime, the trun holds the n samples in call order and mdat.Data is
\* s1.Data .. sn.Data in call order.
C3_AddFullSampleSequence ==
    OnlyAddFullSample =>
        LET traf == heap[f.Moof].Trafs[1]
            n    == Len(calls) - 1
        IN  /\ ret.err = "nil"
            /\ traf.Tfdt = <<[BaseMediaDecodeTime |-> calls[2].arg.DecodeTime]>>
            /\ traf.Truns[1].Samples = [i \in 1..n |-> calls[i + 1].arg.Sample]
            /\ Len(traf.Truns) = 1
            /\ heap[f.Mdat].Data =
                  [pad |-> W(0),
                   bytes |-> Concat([i \in 1..n |-> calls[i + 1].arg.Data])]

C3_Witness ==
    /\ OnlyAddFullSample
    /\ Len(calls) = 3
    /\ calls[2].arg.DecodeTime # calls[3].arg.DecodeTime
    /\ calls[2].arg.Data # <<>>
    /\ calls[3].arg.Data # <<>>

TopTypes == {"prft", "moof", "mdat"}

CountType(t) ==
    Cardinality({ i \in DOMAIN f.Children : heap[f.Children[i]].Type = t })

AddedOfType(t) ==
    Cardinality({ i \in 2..Len(calls) :
                    calls[i].op = "AddChild" /\ heap[calls[i].arg].Type = t })

PositionsOf(t) == { i \in DOMAIN f.Children : heap[f.Children[i]].Type = t }

\* C8 as stated: every fragment made by NewFragment, CreateFragment or
\* CreateMultiTrackFragment and any AddChild calls has exactly one moof and
\* one mdat among its children, and a prft, when present, before the moof.
C8_OneMoofOneMdat ==
    pc = "built" =>
        /\ CountType("moof") = 1
        /\ CountType("mdat") = 1
        /\ \A i \in PositionsOf("prft"), j \in PositionsOf("moof") : i < j

Created == pc = "built" /\ Ctor \in {"CreateFragment", "CreateMultiTrackFragment"}

\* C8 amended: CreateFragment and CreateMultiTrackFragment return a fragment
\* whose children are one moof, then one mdat; NewFragment returns one with no
\* children; every AddChild appends its box unchecked, so the children hold,
\* of each type, the constructor's boxes plus one per AddChild of that type,
\* with the constructor's moof and mdat first.
C8_ChildrenAsAdded ==
    pc = "built" =>
        /\ \A t \in TopTypes :
              CountType(t) = AddedOfType(t)
                             + (IF Created /\ t # "prft" THEN 1 ELSE 0)
        /\ Created =>
              /\ Len(f.Children) >= 2
              /\ heap[f.Children[1]].Type = "moof"
              /\ heap[f.Children[2]].Type = "mdat"

C8_Witness ==
    /\ Created
    /\ CountType("moof") = 2
    /\ CountType("prft") = 1
    /\ \E i \in PositionsOf("prft"), j \in PositionsOf("moof") : j < i

\* ------------------------------------------------------ resolver claims

Resolved == pc = "parsed" /\ ret.op = "GetFullSamples"

Trex == LastCall.arg

\* The call reached the loop over the truns of traf ret.traf with a tfdt and
\* an mdat to read.
ResolvedTraf ==
    /\ Resolved
    /\ ret.traf # 0
    /\ heap[f.Moof].Trafs[ret.traf].Tfdt # <<>>
    /\ f.Mdat # 0

SelectedTraf == heap[f.Moof].Trafs[ret.traf]

\* The duration of sample i of trun as section 4.G resolves it.
ResolvedDur(tfhd, trex, trun, i) ==
    IF trun.HasSampleDuration THEN trun.Samples[i].Dur
    ELSE IF tfhd.HasDefaultSampleDuration THEN tfhd.DefaultSampleDuration
    ELSE IF trex # <<>> THEN trex[1].DefaultSampleDuration
    ELSE 0

\* The resolved durations of all samples of the selected traf, in trun order.
AllDurs ==
    Concat([k \in DOMAIN SelectedTraf.Truns |->
              [i \in DOMAIN SelectedTraf.Truns[k].Samples |->
                  ResolvedDur(SelectedTraf.Tfhd, Trex, SelectedTraf.Truns[k], i)]])

RECURSIVE SumFirst(_, _)
SumFirst(durs, n) ==
    IF n = 0 THEN W(0) ELSE WAdd(SumFirst(durs, n - 1), W(durs[n]))

\* C5: in the list GetFullSamples returns, the decode time of the k-th sample,
\* counted across all truns of the selected traf in trun order, is
\* tfdt.BaseMediaDecodeTime plus the resolved durations of all earlier samples
\* (in 64 bits).
C5_TimeAccumulation ==
    (ResolvedTraf /\ ret.err = "nil") =>
        /\ Len(ret.samples) = Len(AllDurs)
        /\ \A k \in DOMAIN ret.samples :
              ret.samples[k].DecodeTime =
                U64(WAdd(SelectedTraf.Tfdt[1].BaseMediaDecodeTime,
                         SumFirst(AllDurs, k - 1)))

C5_Witness ==
    /\ ResolvedTraf
    /\ ret.err = "nil"
    /\ Len(SelectedTraf.Truns) = 2
    /\ SelectedTraf.Tfdt[1].BaseMediaDecodeTime = W(500)
    /\ Len(ret.samples) = 4
    /\ [k \in 1..4 |-> ret.samples[k].DecodeTime]
         = <<W(500), W(510), W(520), W(540)>>

\* B + D - mdat.PayloadAbsoluteOffset() in 64 bits, for trun k of the selected
\* traf: B is tfhd.BaseDataOffset if tfhd has one, else moof.StartPos if
\* default-base-is-moof is set, else 0; D is trun.DataOffset if the trun has
\* one, else 0.
StartOffset(k) ==
    LET tfhd == SelectedTraf.Tfhd
        trun == SelectedTraf.Truns[k]
        B == IF tfhd.HasBaseDataOffset THEN tfhd.BaseDataOffset
             ELSE IF tfhd.DefaultBaseIfMoof THEN heap[f.Moof].StartPos
             ELSE W(0)
        D == IF trun.HasDataOffset THEN W(trun.DataOffset) ELSE W(0)
    IN  U64(WSub(WAdd(B, D), heap[f.Mdat].PayloadAbsoluteOffset))

Beyond(k) == WLess(DataLen(heap[f.Mdat].Data), StartOffset(k))

\* C6: GetFullSamples fails with an error and returns no samples whenever the
\* start offset of some trun of the selected traf lies beyond len(mdat.Data),
\* the wrapped subtraction (base offset below mdat's payload offset) included.
C6_OffsetOutOfRange ==
    (ResolvedTraf /\ \E k \in DOMAIN SelectedTraf.Truns : Beyond(k)) =>
        /\ ret.err = "error"
        /\ ret.samples = <<>>

\* The second trun is the one out of range, by a wrapped subtraction; the
\* first trun has samples and was resolved.
C6_Witness ==
    /\ ResolvedTraf
    /\ Len(SelectedTraf.Truns) = 2
    /\ ~Beyond(1)
    /\ SelectedTraf.Truns[1].Samples # <<>>
    /\ Beyond(2)
    /\ StartOffset(2)[3] = 1
    /\ ret.err = "error"

\* The samples of the truns of traf i, as the truns hold them after the call.
SamplesOfTraf(i) ==
    Concat([k \in DOMAIN heap[f.Moof].Trafs[i].Truns |->
              heap[f.Moof].Trafs[i].Truns[k].Samples])

\* C7: with no trex GetFullSamples resolves the first traf; with a trex, the
\* traf whose tfhd.TrackID is trex.TrackID; with a trex that no traf matches
\* it returns no samples and no error.
C7_TrafSelection ==
    Resolved =>
        LET trafs == heap[f.Moof].Trafs IN
        /\ (Trex = <<>> /\ trafs # <<>>) => ret.traf = 1
        /\ (Trex # <<>> /\ Trex[1].TrackID \in TrackIDsOf(trafs)) =>
              /\ ret.traf \in DOMAIN trafs
              /\ trafs[ret.traf].Tfhd.TrackID = Trex[1].TrackID
        /\ (Trex # <<>> /\ Trex[1].TrackID \notin TrackIDsOf(trafs)) =>
              /\ ret.traf = 0
              /\ ret.err = "nil"
              /\ ret.samples = <<>>
        /\ (ret.traf # 0 /\ ret.err = "nil") =>
              [k \in DOMAIN ret.samples |-> ret.samples[k].Sample]
                = SamplesOfTraf(ret.traf)

C7_Witness ==
    /\ Resolved
    /\ Trex # <<>>
    /\ Len(heap[f.Moof].Trafs) = 2
    /\ heap[f.Moof].Trafs[1].Tfhd.TrackID # Trex[1].TrackID
    /\ ret.traf = 2
    /\ ret.err = "nil"
    /\ ret.samples # <<>>
    /\ SamplesOfTraf(1) # SamplesOfTraf(2)

\* C9: for each trun, the start offset into mdat.Data that GetFullSamples uses
\* is B + D - mdat.PayloadAbsoluteOffset(), the base computed afresh for
\* every trun.
C9_StartOffset ==
    ResolvedTraf =>
        \A k \in DOMAIN ret.offsets : ret.offsets[k] = StartOffset(k)

\* ------------------------------------------------------------ codec claims

\* C4: every byte sequence that decodes successfully to one of the boxes
\* wvtt, vttC, vlab, vtte, vttc, vsid, ctim, iden, sttg, payl, vtta or nmhd
\* is written back byte for byte by encoding the decoded box.
C4_RoundTrip == pc = "encoded" => out = inp

\* the payload handed to a fixed-layout decoder has not the length the
\* decoder consumes
WrongLength ==
    LET type == BoxType(Hdr.name)
        n == Len(Payload(inp, Hdr))
    IN  \/ type = "vsid" /\ n # 4
        \/ type = "vtte" /\ n # 0
        \/ type = "nmhd" /\ n # 4
        \/ type = "wvtt" /\ n < 8

\* C11: DecodeVsid for a payload that is not exactly 4 bytes, DecodeVtte for
\* a payload that is not empty, DecodeNmhd for a payload that is not exactly
\* 4 bytes and DecodeWvtt for a payload shorter than 8 bytes return the
\* error MalformedBox: no such input is accepted as a box, none crashes the
\* decoder.
C11_WrongLengthRejected ==
    pc = "decoded" /\ WrongLength => box.err = "MalformedBox"

\* --------------------------------------------------------- children claims

AddedTo(op) == SelectSeq(calls, LAMBDA c : c.op = op)

ArgsOf(cs) == [i \in DOMAIN cs |-> cs[i].arg]

\* the last box of the type in children as <<box>>, <<>> when there is none
LastOfType(children, type) ==
    LET at == {i \in DOMAIN children : children[i].Type = type}
    IN  IF at = {} THEN <<>>
        ELSE <<children[CHOOSE i \in at : \A j \in at : j <= i]>>

\* the fragment's accessor, a box of the heap, as the other owners' are
Ref(id) == IF id = 0 THEN <<>> ELSE <<Child(heap[id].Type, id)>>

FragmentChildren == [i \in DOMAIN f.Children |-> Ref(f.Children[i])[1]]

\* C10: after any sequence of AddChild calls on a Fragment, a WvttBox or a
\* VttcBox, Children holds the added boxes in the order of the calls, and
\* every typed accessor that is not nil is the most recently added child of
\* its type, an element of the same owner's Children.
C10_AccessorsFollowChildren ==
    /\ f.Children = ArgsOf(AddedTo("AddChild"))
    /\ w.Children = ArgsOf(AddedTo("WvttBox.AddChild"))
    /\ v.Children = ArgsOf(AddedTo("VttcBox.AddChild"))
    /\ Ref(f.Prft) = LastOfType(FragmentChildren, "prft")
    /\ Ref(f.Moof) = LastOfType(FragmentChildren, "moof")
    /\ Ref(f.Mdat) = LastOfType(FragmentChildren, "mdat")
    /\ w.VttC = LastOfType(w.Children, "vttC")
    /\ w.Vlab = LastOfType(w.Children, "vlab")
    /\ w.Btrt = LastOfType(w.Children, "btrt")
    /\ v.Vsid = LastOfType(v.Children, "vsid")
    /\ v.Iden = LastOfType(v.Children, "iden")
    /\ v.Ctim = LastOfType(v.Children, "ctim")
    /\ v.Sttg = LastOfType(v.Children, "sttg")
    /\ v.Payl = LastOfType(v.Children, "payl")

\* Two boxes of one type were added to a wvtt box and the accessor is the
\* second; the vttc box got a child too.
C10_Witness ==
    /\ pc = "children"
    /\ Len(w.Children) = 2
    /\ w.Children[1].Type = "vttC"
    /\ w.Children[2].Type = "vttC"
    /\ w.Children[1] # w.Children[2]
    /\ w.VttC = <<w.Children[2]>>
    /\ Len(v.Children) = 1

====
